---- MODULE Spec2Model ----
(***************************************************************************)
(* Model of the COCONUT import pipeline of biokb_coconut                   *)
(* (src/src/biokb_coconut/db/manager.py, class DbManager), of the HTTP API *)
(* over the imported store (api/main.py) and of the RDF export             *)
(* (rdf/turtle.py).                                                        *)
(*                                                                         *)
(* The relational store is a record db = [exists, rows]: the set of tables *)
(* that exist and the rows each of them holds.  Text values (CSV cells,    *)
(* names) are sequences of one-character strings, so that splitting on "|" *)
(* and stripping blanks are computed, not assumed.                         *)
(***************************************************************************)
EXTENDS Integers, Sequences, FiniteSets, TLC

VARIABLES
    pc,             \* position of the current import_data call
    db,             \* the relational store behind self.engine
    files,          \* artifact files that exist locally
    path_to_file,   \* DbManager.path_to_file
    force_download, \* argument of the current import_data call
    keep_files,     \* argument of the current import_data call
    df,             \* local DataFrame of import_data
    inserted,       \* local dict of import_data, returned on success
    error,          \* exception that ended the last call, "none" if none
    abortedAt,      \* last step the aborted call had completed
    fetched,        \* artifacts the current call retrieved over the network
    first,          \* what the caller observed at the first successful call
    prev,           \* how the call before the current one ended
    remote,         \* contents of the three published datasets
    request,        \* the last HTTP request the API received
    response,       \* the answer the API gave to it
    ttls,           \* contents of the zipped turtle files, per file
    neo4j           \* number of Neo4jImporter.import_ttls calls made

(* the state of the HTTP API and of the RDF export *)
serving == <<request, response, ttls, neo4j>>

vars == <<pc, db, files, path_to_file, force_download, keep_files, df,
          inserted, error, abortedAt, fetched, first, prev, remote, serving>>

-----------------------------------------------------------------------------
(* Bounds of the model *)

MaxRows == 2        \* rows of the primary dataset
MaxRefRows == 3     \* rows of each reference dataset (taxonomy, plant names)
MaxApiRows == 3     \* rows of the dataset behind the API
MaxImports == 1     \* calls of the Neo4j importer

-----------------------------------------------------------------------------
(* Values *)

NULL == 0               \* SQL NULL / pandas NaN in an integer column
NONE == "None"          \* SQL NULL in a string column, Python None
NaN == <<"NaN">>        \* pandas missing value of a text cell

(* str.split(sep): the maximal pieces between separators, empty pieces kept *)
RECURSIVE split(_, _)
split(s, sep) ==
    IF \A i \in 1..Len(s) : s[i] # sep
    THEN <<s>>
    ELSE LET i == CHOOSE k \in 1..Len(s) :
                      s[k] = sep /\ \A j \in 1..(k-1) : s[j] # sep
         IN  <<SubSeq(s, 1, i-1)>> \o split(SubSeq(s, i+1, Len(s)), sep)

RECURSIVE lstrip(_)
lstrip(s) == IF s # <<>> /\ Head(s) = " " THEN lstrip(Tail(s)) ELSE s

RECURSIVE rstrip(_)
rstrip(s) ==
    IF s # <<>> /\ s[Len(s)] = " " THEN rstrip(SubSeq(s, 1, Len(s)-1)) ELSE s

(* str.strip(): leading and trailing whitespace removed *)
strip(s) == rstrip(lstrip(s))

(* Series.unique() / drop_duplicates(): distinct values, first occurrence kept *)
(* the distinct values in the order of their last occurrence, latest first *)
RECURSIVE unique_latest_first(_)
unique_latest_first(xs) ==
    IF xs = <<>> THEN <<>>
    ELSE LET init == unique_latest_first(SubSeq(xs, 1, Len(xs)-1))
             x == xs[Len(xs)]
         IN  <<x>> \o SelectSeq(init, LAMBDA y : y # x)

RECURSIVE unique(_)
unique(xs) ==
    IF xs = <<>> THEN <<>>
    ELSE LET init == unique(SubSeq(xs, 1, Len(xs)-1))
             x == xs[Len(xs)]
         IN  IF \E i \in 1..Len(init) : init[i] = x THEN init
             ELSE Append(init, x)

(* missing values are kept *)
keepna(xs) == xs

(* dropna(): missing values removed, order kept *)
RECURSIVE dropna(_)
dropna(xs) ==
    IF xs = <<>> THEN <<>>
    ELSE IF Head(xs) = NaN THEN dropna(Tail(xs))
         ELSE <<Head(xs)>> \o dropna(Tail(xs))

Range(f) == {f[x] : x \in DOMAIN f}

(* position of a value in a sequence of distinct values, NULL when absent *)
IndexOf(xs, x) ==
    IF \E i \in 1..Len(xs) : xs[i] = x
    THEN CHOOSE i \in 1..Len(xs) : xs[i] = x
    ELSE NULL

RECURSIVE Flatten(_)
Flatten(xss) == IF xss = <<>> THEN <<>> ELSE Head(xss) \o Flatten(Tail(xss))

-----------------------------------------------------------------------------
(* Schema *)

(* the seven classification columns, in the order import_data resolves them *)
ClassCols == <<"chemical_super_class", "chemical_class", "chemical_sub_class",
               "direct_parent_classification", "np_classifier_pathway",
               "np_classifier_superclass", "np_classifier_class">>

(* organisms expanded before collections *)
MultiColsReordered ==
    <<"organisms", "collections", "dois", "synonyms", "cas_numbers">>

(* the five multi-value columns, in the order import_data expands them *)
MultiCols == <<"collections", "organisms", "dois", "synonyms", "cas_numbers">>

(* model=... argument of each import_n2m_column call *)
Model(col) ==
    CASE col = "collections" -> "collection"
      [] col = "organisms"   -> "organism"
      [] col = "dois"        -> "doi"
      [] col = "synonyms"    -> "synonym"
      [] col = "cas_numbers" -> "cas"

(* joining_model=... argument of each import_n2m_column call *)
JoiningModel(col) ==
    CASE col = "collections" -> "compound__collection"
      [] col = "organisms"   -> "compound__organism"
      [] col = "dois"        -> "compound_doi"
      [] col = "synonyms"    -> "compound__synonym"
      [] col = "cas_numbers" -> "compound_cas"

ClassTables == Range(ClassCols)
AssocTables == {Model(c) : c \in Range(MultiCols)}
JoinTables == {JoiningModel(c) : c \in Range(MultiCols)}
TransientTables == {"taxonomy_name", "wcvp_plant"}

(* Base.metadata.tables: every mapped class, the two reference tables included *)
MetadataTables ==
    ClassTables \cup {"compound"} \cup AssocTables \cup JoinTables
        \cup TransientTables

(* a database without any table *)
EmptyDb == [exists |-> {}, rows |-> [t \in MetadataTables |-> {}]]

(* nothing is dropped *)
drop_db_nothing(d) == d

(* the reference tables are left alone *)
drop_db_durable_only(d) ==
    [exists |-> d.exists \ (MetadataTables \ TransientTables),
     rows   |-> [t \in MetadataTables |->
                    IF t \in TransientTables THEN d.rows[t] ELSE {}]]

(* the join tables are left alone *)
drop_db_keep_joins(d) ==
    [exists |-> d.exists \ (MetadataTables \ JoinTables),
     rows   |-> [t \in MetadataTables |->
                    IF t \in JoinTables THEN d.rows[t] ELSE {}]]

(* Base.metadata.drop_all: every mapped table that exists is dropped *)
drop_db(d) ==
    [exists |-> d.exists \ MetadataTables,
     rows   |-> [t \in MetadataTables |-> {}]]

(* Base.metadata.create_all: every mapped table that is missing is created *)
create_db(d) == [d EXCEPT !.exists = d.exists \cup MetadataTables]

recreate_db(d) == create_db(drop_db(d))

(* Table.drop(checkfirst=True) / Table.create(checkfirst=True) *)
(* the DROP TABLE is not issued *)
DropTableSkipped(d, t) == d

DropTable(d, t) ==
    [exists |-> d.exists \ {t}, rows |-> [d.rows EXCEPT ![t] = {}]]

CreateTable(d, t) == [d EXCEPT !.exists = d.exists \cup {t}]

-----------------------------------------------------------------------------
(* Constraints the store enforces on an INSERT *)

(* the lookup table a join table's second column refers to *)
JoinEntity(t) ==
    CASE t = "compound__collection" -> "collection"
      [] t = "compound__organism"   -> "organism"
      [] t = "compound_doi"         -> "doi"
      [] t = "compound__synonym"    -> "synonym"
      [] t = "compound_cas"         -> "cas"

(* primary key of a row *)
PrimaryKey(t, r) ==
    IF t \in JoinTables THEN <<r.compound_id, r.entity_id>>
    ELSE IF t = "wcvp_plant" THEN <<r.plant_name_id>>
    ELSE <<r.id>>

(* tables with a unique column besides the primary key *)
UniqueNameTables == ClassTables \cup {"collection", "doi", "synonym", "cas"}

UniqueKey(t, r) ==
    IF t \in UniqueNameTables THEN <<r.name>>
    ELSE IF t = "compound" THEN <<r.identifier>>
    ELSE PrimaryKey(t, r)

IdCol(c) ==
    CASE c = "chemical_super_class"         -> "chemical_super_class_id"
      [] c = "chemical_class"               -> "chemical_class_id"
      [] c = "chemical_sub_class"           -> "chemical_sub_class_id"
      [] c = "direct_parent_classification" -> "direct_parent_classification_id"
      [] c = "np_classifier_pathway"        -> "np_classifier_pathway_id"
      [] c = "np_classifier_superclass"     -> "np_classifier_superclass_id"
      [] c = "np_classifier_class"          -> "np_classifier_class_id"

Ids(d, t) == {r.id : r \in d.rows[t]}

(* foreign keys (PRAGMA foreign_keys=ON) *)
ForeignKeysOk(d, t, r) ==
    IF t \in JoinTables
    THEN r.compound_id \in Ids(d, "compound")
         /\ r.entity_id \in Ids(d, JoinEntity(t))
    ELSE IF t = "compound"
    THEN \A c \in ClassTables : r[IdCol(c)] = NULL \/ r[IdCol(c)] \in Ids(d, c)
    ELSE TRUE

SameKey(t, r, q) ==
    PrimaryKey(t, r) = PrimaryKey(t, q) \/ UniqueKey(t, r) = UniqueKey(t, q)

(* xs are the rows of the frame in the order they are sent *)
IntegrityError(d, t, xs) ==
    \/ \E i \in 1..Len(xs) : \E q \in d.rows[t] : SameKey(t, xs[i], q)
    \/ \E i, j \in 1..Len(xs) : i # j /\ SameKey(t, xs[i], xs[j])
    \/ \E i \in 1..Len(xs) : ~ForeignKeysOk(d, t, xs[i])

(* the rows are written but no row count comes back *)
to_sql_no_count(d, t, xs) ==
    IF IntegrityError(d, t, xs)
    THEN [ok |-> FALSE, db |-> d, n |-> 0]
    ELSE [ok |-> TRUE,
          db |-> [exists |-> d.exists \cup {t},
                  rows   |-> [d.rows EXCEPT ![t] = @ \cup Range(xs)]],
          n  |-> 0]

(* DataFrame.to_sql(name, engine, if_exists="append"): one transaction that
   appends the rows, creating the table when it is missing; the returned
   count is the number of rows written *)
to_sql(d, t, xs) ==
    IF IntegrityError(d, t, xs)
    THEN [ok |-> FALSE, db |-> d, n |-> 0]
    ELSE [ok |-> TRUE,
          db |-> [exists |-> d.exists \cup {t},
                  rows   |-> [d.rows EXCEPT ![t] = @ \cup Range(xs)]],
          n  |-> Len(xs)]

-----------------------------------------------------------------------------
(* Lookup-table materializer *)

column(frame, c) == [i \in 1..Len(frame) |-> frame[i][c]]

(* the values are stripped before they are compared *)
df_cc_stripped(frame, c) ==
    LET col == column(frame, c)
    IN  dropna(unique([i \in 1..Len(col) |-> strip(col[i])]))

(* df[[column_name]].drop_duplicates().dropna() ... index += 1 *)
df_cc(frame, c) == dropna(unique(column(frame, c)))

insert_one_to_n_table(d, frame, c) ==
    LET cc == df_cc(frame, c)
        w  == to_sql(d, c, [i \in 1..Len(cc) |-> [id |-> i, name |-> cc[i]]])
    IN  [ok |-> w.ok, db |-> w.db, n |-> w.n,
         df |-> [i \in 1..Len(frame) |->
                    frame[i] @@ (IdCol(c) :> IndexOf(cc, frame[i][c]))]]

-----------------------------------------------------------------------------
(* Compound bulk loader *)

(* the index is written as it is, without the shift to 1 *)
CompoundRowZeroBased(frame, i) ==
    [id |-> i - 1, identifier |-> frame[i].identifier]
        @@ [k \in {IdCol(c) : c \in ClassTables} |-> frame[i][k]]

(* df[column_names] with the index as id: the fixed schema columns *)
CompoundRow(frame, i) ==
    [id |-> i, identifier |-> frame[i].identifier]
        @@ [k \in {IdCol(c) : c \in ClassTables} |-> frame[i][k]]

LoadCompounds(d, frame) ==
    to_sql(d, "compound", [i \in 1..Len(frame) |-> CompoundRow(frame, i)])

-----------------------------------------------------------------------------
(* Many-to-many expander *)

(* missing cells are not dropped and come out as a token *)
explode_keepna(frame, c) ==
    Flatten([i \in 1..Len(frame) |->
        LET toks == split(frame[i][c], "|")
        IN  [j \in 1..Len(toks) |-> [compound_id |-> i, token |-> toks[j]]]])

(* column_series.dropna().str.split("|").explode(): one entry per token,
   the compound id (the frame index) kept *)
explode(frame, c) ==
    Flatten([i \in 1..Len(frame) |->
        IF frame[i][c] = NaN THEN <<>>
        ELSE LET toks == split(frame[i][c], "|")
             IN  [j \in 1..Len(toks) |-> [compound_id |-> i, token |-> toks[j]]]])

(* df.iloc[:, 0].str.strip().unique() *)
df_unique(frame, c) ==
    LET ex == explode(frame, c)
    IN  unique([k \in 1..Len(ex) |-> strip(ex[k].token)])

(* the index is written as it is, without the shift to 1 *)
LookupRowZeroBased(t, i, v) ==
    IF t = "organism"
    THEN [id |-> i - 1, name |-> v, tax_id |-> NULL, ipni_id |-> NONE,
          wcvp_id |-> NULL, powo_id |-> NONE]
    ELSE [id |-> i - 1, name |-> v]

(* a row of the lookup table: only the value column is written *)
LookupRow(t, i, v) ==
    IF t = "organism"
    THEN [id |-> i, name |-> v, tax_id |-> NULL, ipni_id |-> NONE,
          wcvp_id |-> NULL, powo_id |-> NONE]
    ELSE [id |-> i, name |-> v]

(* df_1.join(df_2, how="inner"): the exploded tokens are matched as they are
   against the stripped unique values; one row per matching token *)
joined(frame, c) ==
    LET ex == explode(frame, c)
        u  == df_unique(frame, c)
        hit == SelectSeq(ex, LAMBDA e : IndexOf(u, e.token) # NULL)
    IN  [k \in 1..Len(hit) |->
            [compound_id |-> hit[k].compound_id,
             entity_id |-> IndexOf(u, hit[k].token)]]

(* every joined row is sent, repeated pairs included *)
keep_duplicates(xs) == xs

(* .drop_duplicates(subset=["compound_id", <entity>_id]) *)
drop_duplicates(xs) == unique(xs)

df_join(frame, c) == drop_duplicates(joined(frame, c))

(* .str on a column that pandas read as all-missing (float64) raises *)
StrAccessorRaises(frame, c) ==
    Len(frame) > 0 /\ \A i \in 1..Len(frame) : frame[i][c] = NaN

import_n2m_column(d, frame, c) ==
    LET u  == df_unique(frame, c)
        w1 == to_sql(d, Model(c), [i \in 1..Len(u) |-> LookupRow(Model(c), i, u[i])])
        w2 == to_sql(w1.db, JoiningModel(c), df_join(frame, c))
    IN  IF StrAccessorRaises(frame, c)
        THEN [ok |-> FALSE, db |-> d, u |-> 0, j |-> 0, error |-> "AttributeError"]
        ELSE IF ~w1.ok
        THEN [ok |-> FALSE, db |-> d, u |-> 0, j |-> 0, error |-> "IntegrityError"]
        ELSE IF ~w2.ok
        THEN [ok |-> FALSE, db |-> w1.db, u |-> w1.n, j |-> 0, error |-> "IntegrityError"]
        ELSE [ok |-> TRUE, db |-> w2.db, u |-> w1.n, j |-> w2.n, error |-> "none"]


-----------------------------------------------------------------------------
(* External taxonomy reconciler *)

(* df.name_type.str[:-2]: the field terminator of names.dmp is cut off *)
CutTerminator(s) == SubSeq(s, 1, Len(s) - 2)

(* names.dmp parsed into (tax_id, name, name_type), index += 1 as id *)
TaxonomyRows(dump) ==
    [i \in 1..Len(dump) |->
        [id |-> i, tax_id |-> dump[i].tax_id, name |-> dump[i].name,
         name_type |-> CutTerminator(dump[i].name_type)]]

(* df[df["taxon_rank"] == "Species"].drop(columns=["taxon_rank"]) *)
WcvpRows(names) ==
    LET sp == SelectSeq(names, LAMBDA q : q.taxon_rank = "Species")
    IN  [i \in 1..Len(sp) |->
            [plant_name_id |-> sp[i].plant_name_id, taxon_name |-> sp[i].taxon_name,
             accepted_plant_name_id |-> sp[i].accepted_plant_name_id,
             powo_id |-> sp[i].powo_id, ipni_id |-> sp[i].ipni_id]]

(* UPDATE organism SET ... FROM <table> WHERE ...: every organism with a
   matching row is updated from one matching row; which one the store takes
   when several match is not determined; opts[o] are the rows organism o can
   become *)
UpdateOutcomes(opts) ==
    {Range(g) : g \in {h \in [DOMAIN opts -> UNION Range(opts)] :
                          \A o \in DOMAIN opts : h[o] \in opts[o]}}

WithOrganisms(d, orgs) == [d EXCEPT !.rows["organism"] = orgs]

ScientificNameRows(d, o) ==
    {r \in d.rows["taxonomy_name"] :
        r.name = o.name /\ r.name_type = <<"scientific name">>}

(* the value is assigned to the primary key instead of tax_id *)
SetTaxIdOverId(o, r) == [o EXCEPT !.id = r.tax_id]

SetTaxId(o, r) == [o EXCEPT !.tax_id = r.tax_id]

(* first statement of update_organism_tax_ids *)
UpdateTaxIdsByScientificName(d) ==
    LET opts == [o \in d.rows["organism"] |->
                    IF ScientificNameRows(d, o) = {} THEN {o}
                    ELSE {SetTaxId(o, r) : r \in ScientificNameRows(d, o)}]
    IN  {WithOrganisms(d, orgs) : orgs \in UpdateOutcomes(opts)}

(* the tax_id IS NULL condition is missing *)
AnyNameRowsUnguarded(d, o) == {r \in d.rows["taxonomy_name"] : r.name = o.name}

AnyNameRows(d, o) ==
    IF o.tax_id = NULL
    THEN {r \in d.rows["taxonomy_name"] : r.name = o.name}
    ELSE {}

(* second statement of update_organism_tax_ids *)
UpdateTaxIdsByAnyName(d) ==
    LET opts == [o \in d.rows["organism"] |->
                    IF AnyNameRows(d, o) = {} THEN {o}
                    ELSE {SetTaxId(o, r) : r \in AnyNameRows(d, o)}]
    IN  {WithOrganisms(d, orgs) : orgs \in UpdateOutcomes(opts)}

(* the name condition is missing: any accepted row matches *)
AcceptedRowsAnyName(d, o) ==
    {r \in d.rows["wcvp_plant"] :
        /\ r.accepted_plant_name_id # NULL
        /\ r.plant_name_id = r.accepted_plant_name_id}

(* the plant_name_id = accepted_plant_name_id condition is missing: synonym
   rows match in the first pass too *)
AcceptedRowsAnyStatus(d, o) ==
    {r \in d.rows["wcvp_plant"] :
        /\ r.taxon_name = o.name
        /\ r.accepted_plant_name_id # NULL}

AcceptedRows(d, o) ==
    {r \in d.rows["wcvp_plant"] :
        /\ r.taxon_name = o.name
        /\ r.accepted_plant_name_id # NULL
        /\ r.plant_name_id = r.accepted_plant_name_id}

SetIdsFromAccepted(o, r) ==
    [o EXCEPT !.ipni_id = r.ipni_id, !.powo_id = r.powo_id,
              !.wcvp_id = r.plant_name_id]

(* first statement of update_other_organism_ids_by_wcvp *)
UpdateIdsByAcceptedName(d) ==
    LET opts == [o \in d.rows["organism"] |->
                    IF AcceptedRows(d, o) = {} THEN {o}
                    ELSE {SetIdsFromAccepted(o, r) : r \in AcceptedRows(d, o)}]
    IN  {WithOrganisms(d, orgs) : orgs \in UpdateOutcomes(opts)}

(* the wcvp_id IS NULL condition is missing *)
SynonymRowsUnguarded(d, o) ==
    {r \in d.rows["wcvp_plant"] :
        /\ r.taxon_name = o.name
        /\ r.accepted_plant_name_id # NULL
        /\ r.plant_name_id # r.accepted_plant_name_id}

SynonymRows(d, o) ==
    IF o.wcvp_id = NULL
    THEN {r \in d.rows["wcvp_plant"] :
            /\ r.taxon_name = o.name
            /\ r.accepted_plant_name_id # NULL
            /\ r.plant_name_id # r.accepted_plant_name_id}
    ELSE {}

(* the synonym's own id is taken *)
SetIdsFromSynonymOwnId(o, r) ==
    [o EXCEPT !.ipni_id = r.ipni_id, !.powo_id = r.powo_id,
              !.wcvp_id = r.plant_name_id]

SetIdsFromSynonym(o, r) ==
    [o EXCEPT !.ipni_id = r.ipni_id, !.powo_id = r.powo_id,
              !.wcvp_id = r.accepted_plant_name_id]

(* second statement of update_other_organism_ids_by_wcvp *)
UpdateIdsBySynonym(d) ==
    LET opts == [o \in d.rows["organism"] |->
                    IF SynonymRows(d, o) = {} THEN {o}
                    ELSE {SetIdsFromSynonym(o, r) : r \in SynonymRows(d, o)}]
    IN  {WithOrganisms(d, orgs) : orgs \in UpdateOutcomes(opts)}

-----------------------------------------------------------------------------
(* Files *)

(* download_data: the archive is retrieved when it is missing or forced *)
download_data(fs, force) ==
    [retrieved |-> ("data_zip" \notin fs \/ force), files |-> fs \cup {"data_zip"}]

(* __download_taxdmp: retrieved only when missing *)
download_taxdmp(fs) ==
    [retrieved |-> "taxdmp_zip" \notin fs, files |-> fs \cup {"taxdmp_zip"}]

(* WCVP archive: retrieved only when missing *)
download_wcvp(fs) ==
    [retrieved |-> "wcvp_zip" \notin fs, files |-> fs \cup {"wcvp_zip"}]

(* df.rename(columns={"cas": "cas_numbers"}) *)
rename(row) ==
    [c \in (DOMAIN row \ {"cas"}) \cup {"cas_numbers"} |->
        IF c = "cas_numbers" THEN row["cas"] ELSE row[c]]

read_csv(content) == [i \in 1..Len(content) |-> rename(content[i])]


-----------------------------------------------------------------------------
(* Input data the model draws from *)

SourceRow(ident, supc, cc, subc, dpc, ncp, ncs, ncc, cols, orgs, dois, syns, cas) ==
    [identifier |-> ident,
     chemical_super_class |-> supc, chemical_class |-> cc,
     chemical_sub_class |-> subc, direct_parent_classification |-> dpc,
     np_classifier_pathway |-> ncp, np_classifier_superclass |-> ncs,
     np_classifier_class |-> ncc,
     collections |-> cols, organisms |-> orgs, dois |-> dois,
     synonyms |-> syns, cas |-> cas]

(* candidate rows of the primary CSV: repeated values, values that differ
   only in surrounding blanks, missing cells, repeated and padded tokens *)
SourcePool ==
    {SourceRow("1", <<"A">>, <<"A">>, <<"B">>, NaN, <<"P">>, <<"S">>, <<"C">>,
               <<"A", "|", "A", "|", " ", " ", "B", " ">>, <<"F">>, <<"D">>,
               <<"X", "|", "Y">>, <<"1">>),
     SourceRow("2", <<"A">>, <<" ", "A">>, <<"A">>, <<"D">>, <<"Q">>, <<"S">>, NaN,
               <<"B">>, <<"F", "|", "G">>, <<"E">>, <<"Y">>, <<"2">>),
     SourceRow("3", NaN, <<"A", " ">>, <<"B">>, NaN, <<"P">>, <<"T">>, <<"C">>,
               NaN, <<"G">>, <<"D", "|", "E">>, NaN, NaN)}

(* the primary dataset: up to MaxRows rows *)
Datasets == UNION {[1..n -> SourcePool] : n \in 0..MaxRows}

TaxRow(tax_id, name, name_type) ==
    [tax_id |-> tax_id, name |-> name, name_type |-> <<name_type, "\t", "|">>]

(* candidate lines of names.dmp *)
TaxPool ==
    <<TaxRow(1, <<"F">>, "scientific name"),
      TaxRow(2, <<"F">>, "common name"),
      TaxRow(3, <<"G">>, "synonym"),
      TaxRow(4, <<"F">>, "scientific name"),
      TaxRow(5, <<"G">>, "common name")>>

WcvpRow(id, name, rank, accepted, powo, ipni) ==
    [plant_name_id |-> id, taxon_name |-> name, taxon_rank |-> rank,
     accepted_plant_name_id |-> accepted, powo_id |-> powo, ipni_id |-> ipni]

(* candidate lines of wcvp_names.csv; an accepted_plant_name_id is the id of
   an accepted name, never of a synonym *)
WcvpPool ==
    <<WcvpRow(5, <<"F">>, "Species", 9, "p5", "i5"),
      WcvpRow(9, <<"G">>, "Species", 9, "p9", "i9"),
      WcvpRow(7, <<"F">>, "Species", 7, "p7", "i7"),
      WcvpRow(4, <<"F">>, "Species", 8, "p4", "i4"),
      WcvpRow(3, <<"G">>, "Species", NULL, "p3", "i3"),
      WcvpRow(6, <<"G">>, "Genus", 6, "p6", "i6")>>

(* the reference files the orchestrator runs are given *)
PublishedTax == SubSeq(TaxPool, 1, 3)
PublishedWcvp == WcvpPool

(* the subsequence of a file's lines at the positions in S *)
RECURSIVE Select(_, _)
Select(lines, S) ==
    IF lines = <<>> THEN <<>>
    ELSE LET init == Select(SubSeq(lines, 1, Len(lines)-1), S)
         IN  IF Len(lines) \in S THEN Append(init, lines[Len(lines)]) ELSE init

(* reference files of up to MaxRefRows lines *)
RefFiles(pool) ==
    {Select(pool, S) : S \in {T \in SUBSET (1..Len(pool)) : Cardinality(T) <= MaxRefRows}}

-----------------------------------------------------------------------------
(* The HTTP API and the RDF export: api/main.py, api/schemas.py,
   rdf/turtle.py.  The query parameters of a request are a function from
   the names of the parameters given to their values. *)

NoRequest == [endpoint |-> "none", params |-> <<>>]
NoResponse == [status |-> 0, body |-> <<>>]
NoTtls == [f \in {} |-> {}]

NothingServed ==
    /\ request = NoRequest
    /\ response = NoResponse
    /\ ttls = NoTtls
    /\ neo4j = 0

(* limit: Annotated[int, Field(le=100)]: a larger limit is rejected *)
ValidOffsetLimit(q) == "limit" \in DOMAIN q => q.limit <= 100

(* a limit that is not given is 100, the largest one allowed *)
OffsetLimitLargestDefault(q) ==
    [limit  |-> IF "limit" \in DOMAIN q THEN q.limit ELSE 100,
     offset |-> IF "offset" \in DOMAIN q THEN q.offset ELSE 0]

(* schemas.OffsetLimit: limit = 10 and offset = 0 unless given *)
OffsetLimit(q) ==
    [limit  |-> IF "limit" \in DOMAIN q THEN q.limit ELSE 10,
     offset |-> IF "offset" \in DOMAIN q THEN q.offset ELSE 0]

(* schemas.CompoundSearch(OffsetLimit): the paging fields and the optional
   filter fields, of which the model has identifier *)
CompoundSearch(q) ==
    OffsetLimit(q) @@ [filters |-> [k \in DOMAIN q \cap {"identifier"} |-> q[k]]]

(* the rows of a set in ascending id order *)
RECURSIVE OrderById(_)
OrderById(rows) ==
    IF rows = {} THEN <<>>
    ELSE LET r == CHOOSE x \in rows : \A y \in rows : x.id <= y.id
         IN  <<r>> \o OrderById(rows \ {r})

(* query_tools.build_dynamic_query: the rows that equal every given filter
   field, counted, ordered by id and cut to the page *)
build_dynamic_query(search_obj, model_cls, d) ==
    LET hits == {r \in d.rows[model_cls] :
                    \A k \in DOMAIN search_obj.filters : r[k] = search_obj.filters[k]}
        n    == Cardinality(hits)
        last == IF search_obj.offset + search_obj.limit < n
                THEN search_obj.offset + search_obj.limit ELSE n
    IN  [count   |-> n,
         offset  |-> search_obj.offset,
         limit   |-> search_obj.limit,
         results |-> SubSeq(OrderById(hits), search_obj.offset + 1, last)]

(* GET /compounds/ *)
search_compounds(q, d) ==
    IF ValidOffsetLimit(q)
    THEN [status |-> 200, body |-> build_dynamic_query(CompoundSearch(q), "compound", d)]
    ELSE [status |-> 422, body |-> "less_than_equal"]

(* the scalar columns of a compound row that the export reads; decimal
   values are in hundredths where the threshold has decimals *)
Descriptors ==
    {"lipinski_rule_of_five_violations", "hydrogen_bond_donors_lipinski",
     "hydrogen_bond_acceptors_lipinski", "molecular_weight", "alogp",
     "qed_drug_likeliness", "topological_polar_surface_area"}

(* TurtleCreator.compound_filter *)
compound_filter(c) ==
    /\ c.lipinski_rule_of_five_violations <= 1
    /\ c.hydrogen_bond_donors_lipinski <= 5
    /\ c.hydrogen_bond_acceptors_lipinski <= 10
    /\ c.molecular_weight <= 500
    /\ c.alogp <= 5
    /\ c.qed_drug_likeliness >= 67
    /\ c.topological_polar_surface_area <= 140

(* URIRef namespace[key], Literal(value, datatype) *)
Node(namespace, key) == <<namespace, key>>
Literal(value, datatype) == <<datatype, value>>

(* model.__name__ of the table's mapped class *)
ClassName(t) ==
    CASE t = "chemical_class"               -> "ChemicalClass"
      [] t = "chemical_sub_class"           -> "ChemicalSubClass"
      [] t = "chemical_super_class"         -> "ChemicalSuperClass"
      [] t = "direct_parent_classification" -> "DirectParentClassification"
      [] t = "np_classifier_pathway"        -> "NpClassifierPathway"
      [] t = "np_classifier_superclass"     -> "NpClassifierSuperclass"
      [] t = "np_classifier_class"          -> "NpClassifierClass"
      [] t = "compound"                     -> "Compound"
      [] t = "organism"                     -> "Organism"

(* "HAS_" and the class name in upper snake case *)
get_rel_name(t) ==
    CASE t = "chemical_class"               -> "HAS_CHEMICAL_CLASS"
      [] t = "chemical_sub_class"           -> "HAS_CHEMICAL_SUB_CLASS"
      [] t = "chemical_super_class"         -> "HAS_CHEMICAL_SUPER_CLASS"
      [] t = "direct_parent_classification" -> "HAS_DIRECT_PARENT_CLASSIFICATION"
      [] t = "np_classifier_pathway"        -> "HAS_NP_CLASSIFIER_PATHWAY"
      [] t = "np_classifier_superclass"     -> "HAS_NP_CLASSIFIER_SUPERCLASS"
      [] t = "np_classifier_class"          -> "HAS_NP_CLASSIFIER_CLASS"

(* the two rdf:type triples every exported entity gets *)
TypeTriples(ent, t) ==
    {<<ent, "rdf:type", Node("n", ClassName(t))>>,
     <<ent, "rdf:type", Node("n", "DbCoconut")>>}

(* session.query(Compound).where(compound_filter) *)
EligibleCompounds(d) == {c \in d.rows["compound"] : compound_filter(c)}

(* _create_compounds: coconut_compounds.ttl, with the properties of the
   columns the model has *)
create_compounds(d) ==
    UNION {TypeTriples(Node("c", c.identifier), "compound")
              \cup {<<Node("c", c.identifier), k, Literal(c[k], "xsd:float")>> :
                       k \in Descriptors}
           : c \in EligibleCompounds(d)}

(* select(ChemicalClass.id, Compound.identifier).select_from(Compound)
   .join(ChemicalClass).where(compound_filter): the statement names
   ChemicalClass whatever the model is *)
rows_compound_link(d, model) ==
    {[model_id |-> p[2].id, compound_identifier |-> p[1].identifier] :
        p \in {x \in EligibleCompounds(d) \X d.rows["chemical_class"] :
                  x[1].chemical_class_id = x[2].id}}

(* __create_only_name_class: <tablename>.ttl *)
create_only_name_class(d, model) ==
    UNION {TypeTriples(Node(model, row.id), model)
              \cup {<<Node(model, row.id), "name", Literal(row.name, "xsd:string")>>}
           : row \in d.rows[model]}
    \cup {<<Node("c", l.compound_identifier), get_rel_name(model),
            Node(model, l.model_id)>> : l \in rows_compound_link(d, model)}

(* optional identifiers of an organism as SAME_AS triples *)
SameAs(org, o) ==
    (IF o.wcvp_id = NULL THEN {}
     ELSE {<<org, "SAME_AS", Node("wcvp_plant", o.wcvp_id)>>})
    \cup (IF o.tax_id = NULL THEN {}
          ELSE {<<org, "SAME_AS", Node("ncbi_taxon", o.tax_id)>>})
    \cup (IF o.ipni_id = NONE THEN {}
          ELSE {<<org, "SAME_AS", Node("ipni", o.ipni_id)>>})

(* _create_organisms_with_links: organism.ttl *)
create_organisms_with_links(d) ==
    LET linked == {p \in d.rows["organism"] \X EligibleCompounds(d) :
                      \E j \in d.rows["compound__organism"] :
                          j.entity_id = p[1].id /\ j.compound_id = p[2].id}
    IN  UNION {TypeTriples(Node("organism", p[1].id), "organism")
                  \cup {<<Node("organism", p[1].id), "name",
                          Literal(p[1].name, "xsd:string")>>}
                  \cup SameAs(Node("organism", p[1].id), p[1])
               : p \in linked}
        \cup {<<Node("organism", p[1].id), "HAS_COMPOUND", Node("c", p[2].identifier)>>
              : p \in linked}

(* _create_only_name_classes: the seven classification files *)
create_only_name_classes(d) == [model \in ClassTables |-> create_only_name_class(d, model)]

(* TurtleCreator.create_ttls: the files of the zip archive *)
create_ttls(d) ==
    ("coconut_compounds" :> create_compounds(d))
        @@ create_only_name_classes(d)
        @@ ("organism" :> create_organisms_with_links(d))

-----------------------------------------------------------------------------
(* The orchestrator: DbManager.import_data *)

(* the steps of import_data in program order; pc names the last one completed *)
Pipeline ==
    <<"SchemaReset", "Parsed">> \o ClassCols \o <<"CompoundsLoaded">>
        \o MultiCols
        \o <<"TaxNamesImported", "TaxPassA", "TaxPassB", "TaxonomyReconciled",
             "WcvpLoaded", "WcvpPassA", "WcvpPassB", "PlantNamesReconciled",
             "Cleanup", "Done">>

Idx(s) == CHOOSE i \in 1..Len(Pipeline) : Pipeline[i] = s

NextStep(s) == Pipeline[Idx(s) + 1]

(* positions from which the step that follows can raise *)
Running == Range(Pipeline) \ {"Cleanup", "Done"}

NoCounts == [t \in {} |-> 0]

(* path_to_file = self.path_to_file or self.download_data(...) *)
SourcePath == IF path_to_file # NONE THEN path_to_file ELSE "data_zip"

(* the exception is caught and recorded, and the call goes on with the
   step that follows *)
AbortSwallowed(e, d, fs) ==
    /\ pc' = NextStep(pc)
    /\ error' = e
    /\ abortedAt' = pc
    /\ db' = d
    /\ files' = fs
    /\ UNCHANGED <<serving, df, inserted, path_to_file, force_download, keep_files,
                   fetched, first, prev, remote>>

(* an exception leaves import_data: its arguments and locals are gone, the
   store and the files stay as they are *)
Abort(e, d, fs) ==
    /\ pc' = "Aborted"
    /\ error' = e
    /\ abortedAt' = pc
    /\ db' = d
    /\ files' = fs
    /\ df' = <<>>
    /\ inserted' = NoCounts
    /\ force_download' = FALSE
    /\ keep_files' = FALSE
    /\ fetched' = {}
    /\ UNCHANGED <<serving, path_to_file, first, prev, remote>>

(* how a finished call is remembered by the next one *)
Outcome ==
    IF pc = "Idle" THEN "none"
    ELSE IF pc = "Done" THEN "done"
    ELSE IF abortedAt \in {"TaxNamesImported", "TaxPassA", "TaxPassB",
                           "WcvpLoaded", "WcvpPassA", "WcvpPassB"}
         THEN "abortedInReconciliation"
         ELSE "aborted"

Init ==
    /\ pc = "Idle"
    /\ db = EmptyDb
    /\ files = {"fixture"}
    /\ path_to_file = NONE
    /\ force_download = FALSE
    /\ keep_files = FALSE
    /\ df = <<>>
    /\ inserted = NoCounts
    /\ error = "none"
    /\ abortedAt = "none"
    /\ fetched = {}
    /\ first = <<>>
    /\ prev = "none"
    /\ remote \in [source : Datasets, tax : {PublishedTax}, wcvp : {PublishedWcvp}]
    /\ NothingServed

(* set_path_to_file: only an existing file is accepted *)
SetPathToFile ==
    /\ pc \in {"Idle", "Done", "Aborted"}
    /\ path_to_file = NONE
    /\ "fixture" \in files
    /\ path_to_file' = "fixture"
    /\ UNCHANGED <<serving, pc, db, files, force_download, keep_files, df, inserted,
                   error, abortedAt, fetched, first, prev, remote>>

(* a call of import_data(force_download, keep_files) enters the function *)
Enter(force, keep) ==
    /\ pc \in {"Idle", "Done", "Aborted"}
    /\ force_download' = force
    /\ keep_files' = keep
    /\ df' = <<>>
    /\ inserted' = NoCounts
    /\ fetched' = {}
    /\ prev' = Outcome
    /\ UNCHANGED <<serving, files, path_to_file, first, remote>>

(* import_data(force_download, keep_files) is called and self.recreate_db()
   completes *)
ImportData(force, keep) ==
    /\ Enter(force, keep)
    /\ pc' = "SchemaReset"
    /\ db' = recreate_db(db)
    /\ error' = "none"
    /\ abortedAt' = "none"

(* import_data is called and self.recreate_db() raises: the store cannot be
   reached, nothing is dropped *)
ImportDataResetFails ==
    /\ pc \in {"Idle", "Done", "Aborted"}
    /\ prev' = Outcome
    /\ pc' = "Aborted"
    /\ error' = "EnvironmentError"
    /\ abortedAt' = "Start"
    /\ df' = <<>>
    /\ inserted' = NoCounts
    /\ force_download' = FALSE
    /\ keep_files' = FALSE
    /\ fetched' = {}
    /\ UNCHANGED <<serving, db, files, path_to_file, first, remote>>

Step(d, fs, frame, counts, got) ==
    /\ pc' = NextStep(pc)
    /\ db' = d
    /\ files' = fs
    /\ df' = frame
    /\ inserted' = counts
    /\ fetched' = got
    /\ UNCHANGED <<serving, path_to_file, force_download, keep_files, error, abortedAt,
                   first, prev, remote>>

(* obtain the source file and read it *)
ReadSource ==
    /\ pc = "SchemaReset"
    /\ LET dl == download_data(files, force_download)
           fs == IF path_to_file # NONE THEN files ELSE dl.files
           got == IF path_to_file = NONE /\ dl.retrieved
                  THEN fetched \cup {"data_zip"} ELSE fetched
       IN  IF SourcePath \in fs
           THEN Step(db, fs, read_csv(remote.source), inserted, got)
           ELSE Abort("FileNotFoundError", db, fs)

(* one call of insert_one_to_n_table, for the next classification column *)
MaterializeLookup ==
    /\ pc \in {"Parsed"} \cup {ClassCols[i] : i \in 1..(Len(ClassCols) - 1)}
    /\ LET c == NextStep(pc)
           r == insert_one_to_n_table(db, df, c)
       IN  IF r.ok
           THEN Step(r.db, files, r.df, inserted @@ (c :> r.n), fetched)
           ELSE Abort("IntegrityError", db, files)

(* df[column_names].to_sql(compound) *)
BulkLoadCompounds ==
    /\ pc = ClassCols[Len(ClassCols)]
    /\ LET w == LoadCompounds(db, df)
       IN  IF w.ok
           THEN Step(w.db, files, df, inserted @@ ("compound" :> w.n), fetched)
           ELSE Abort("IntegrityError", db, files)

(* one call of import_n2m_column, for the next multi-value column *)
ExpandAssociation ==
    /\ pc \in {"CompoundsLoaded"} \cup {MultiCols[i] : i \in 1..(Len(MultiCols) - 1)}
    /\ LET c == NextStep(pc)
           r == import_n2m_column(db, df, c)
       IN  IF r.ok
           THEN Step(r.db, files, df,
                     inserted @@ (Model(c) :> r.u) @@ (JoiningModel(c) :> r.j),
                     fetched)
           ELSE Abort(r.error, r.db, files)


(* _import_tax_names: the table is rebuilt from names.dmp, and the archive
   removed unless keep_files *)
ImportTaxNames ==
    /\ pc = MultiCols[Len(MultiCols)]
    /\ LET d1 == CreateTable(DropTable(db, "taxonomy_name"), "taxonomy_name")
           dl == download_taxdmp(files)
           w  == to_sql(d1, "taxonomy_name", TaxonomyRows(remote.tax))
           fs == IF keep_files THEN dl.files ELSE dl.files \ {"taxdmp_zip"}
           got == IF dl.retrieved THEN fetched \cup {"taxdmp_zip"} ELSE fetched
       IN  IF w.ok
           THEN Step(w.db, fs, df, inserted, got)
           ELSE Abort("IntegrityError", d1, dl.files)

(* update by scientific name, committed *)
TaxPassA ==
    /\ pc = "TaxNamesImported"
    /\ \E d \in UpdateTaxIdsByScientificName(db) :
           Step(d, files, df, inserted, fetched)

(* update by any name where tax_id is still NULL, committed *)
TaxPassB ==
    /\ pc = "TaxPassA"
    /\ \E d \in UpdateTaxIdsByAnyName(db) :
           Step(d, files, df, inserted, fetched)

(* TaxonomyName.__table__.drop *)
DropTaxonomyNames ==
    /\ pc = "TaxPassB"
    /\ Step(DropTable(db, "taxonomy_name"), files, df, inserted, fetched)

(* update_other_organism_ids_by_wcvp up to the load of the species rows *)
LoadWcvp ==
    /\ pc = "TaxonomyReconciled"
    /\ LET d1 == CreateTable(DropTable(db, "wcvp_plant"), "wcvp_plant")
           dl == download_wcvp(files)
           w  == to_sql(d1, "wcvp_plant", WcvpRows(remote.wcvp))
           got == IF dl.retrieved THEN fetched \cup {"wcvp_zip"} ELSE fetched
       IN  IF w.ok
           THEN Step(w.db, dl.files, df, inserted, got)
           ELSE Abort("IntegrityError", d1, dl.files)

(* update from accepted names, committed *)
WcvpPassA ==
    /\ pc = "WcvpLoaded"
    /\ \E d \in UpdateIdsByAcceptedName(db) :
           Step(d, files, df, inserted, fetched)

(* update from synonyms where wcvp_id is still NULL, committed *)
WcvpPassB ==
    /\ pc = "WcvpPassA"
    /\ \E d \in UpdateIdsBySynonym(db) :
           Step(d, files, df, inserted, fetched)

(* WCVPPlant.__table__.drop *)
DropWcvp ==
    /\ pc = "WcvpPassB"
    /\ Step(DropTable(db, "wcvp_plant"), files, df, inserted, fetched)

(* if not keep_files: os.remove(path_to_file) *)
(* only a file that download_data fetched is removed *)
CleanupDownloadedOnly ==
    /\ pc = "PlantNamesReconciled"
    /\ Step(db, IF keep_files THEN files ELSE files \ {"data_zip"}, df,
            inserted, fetched)

Cleanup ==
    /\ pc = "PlantNamesReconciled"
    /\ Step(db, IF keep_files THEN files ELSE files \ {SourcePath}, df,
            inserted, fetched)

(* return inserted *)
Return ==
    /\ pc = "Cleanup"
    /\ pc' = "Done"
    /\ df' = <<>>
    /\ first' = IF prev = "none" THEN <<[counts |-> inserted, store |-> db]>>
                ELSE first
    /\ UNCHANGED <<serving, db, files, path_to_file, force_download, keep_files,
                   inserted, error, abortedAt, fetched, prev, remote>>

(* the step in progress raises for a reason outside the data: the network,
   the file system or the store is unavailable *)
Raise ==
    /\ pc \in Running
    /\ Abort("EnvironmentError", db, files)

Next ==
    \/ SetPathToFile
    \/ \E force, keep \in BOOLEAN : ImportData(force, keep)
    \/ ImportDataResetFails
    \/ ReadSource
    \/ MaterializeLookup
    \/ BulkLoadCompounds
    \/ ExpandAssociation
    \/ ImportTaxNames
    \/ TaxPassA
    \/ TaxPassB
    \/ DropTaxonomyNames
    \/ LoadWcvp
    \/ WcvpPassA
    \/ WcvpPassB
    \/ DropWcvp
    \/ Cleanup
    \/ Return
    \/ Raise

Spec == Init /\ [][Next]_vars


-----------------------------------------------------------------------------
(* The reconciler on its own: import_data has loaded a dataset and reaches
   update_organism_tax_ids; the reference files are arbitrary files of up to
   MaxRefRows lines *)

(* import_data from read_csv up to the k-th classification lookup *)
RECURSIVE Materialized(_, _)
Materialized(src, k) ==
    IF k = 0
    THEN [ok |-> TRUE, db |-> recreate_db(EmptyDb), df |-> read_csv(src),
          inserted |-> NoCounts]
    ELSE LET p == Materialized(src, k - 1)
             r == insert_one_to_n_table(p.db, p.df, ClassCols[k])
         IN  [ok |-> p.ok /\ r.ok, db |-> r.db, df |-> r.df,
              inserted |-> p.inserted @@ (ClassCols[k] :> r.n)]

(* ... up to the k-th association expansion *)
RECURSIVE Expanded(_, _)
Expanded(src, k) ==
    IF k = 0
    THEN LET p == Materialized(src, Len(ClassCols))
             w == LoadCompounds(p.db, p.df)
         IN  [ok |-> p.ok /\ w.ok, db |-> w.db, df |-> p.df,
              inserted |-> p.inserted @@ ("compound" :> w.n)]
    ELSE LET p == Expanded(src, k - 1)
             r == import_n2m_column(p.db, p.df, MultiCols[k])
         IN  [ok |-> p.ok /\ r.ok, db |-> r.db, df |-> p.df,
              inserted |-> p.inserted @@ (Model(MultiCols[k]) :> r.u)
                              @@ (JoiningModel(MultiCols[k]) :> r.j)]

ReconDatasets == {src \in Datasets : Len(src) = 1 /\ Expanded(src, Len(MultiCols)).ok}

InitRecon ==
    \E src \in ReconDatasets :
        LET s == Expanded(src, Len(MultiCols))
        IN  /\ pc = MultiCols[Len(MultiCols)]
            /\ db = s.db
            /\ df = s.df
            /\ inserted = s.inserted
            /\ files = {"fixture"}
            /\ path_to_file = "fixture"
            /\ force_download = FALSE
            /\ keep_files = FALSE
            /\ error = "none"
            /\ abortedAt = "none"
            /\ fetched = {}
            /\ first = <<>>
            /\ prev = "none"
            /\ remote \in [source : {src}, tax : RefFiles(TaxPool),
                           wcvp : RefFiles(WcvpPool)]
            /\ NothingServed

NextRecon ==
    \/ ImportTaxNames
    \/ TaxPassA
    \/ TaxPassB
    \/ DropTaxonomyNames
    \/ LoadWcvp
    \/ WcvpPassA
    \/ WcvpPassB
    \/ DropWcvp

SpecRecon == InitRecon /\ [][NextRecon]_vars


-----------------------------------------------------------------------------
(* The API over an imported store: an import_data call has returned, and
   requests to /compounds/, /export_ttls/ and /import_neo4j/ arrive in any
   order *)

(* df[column_names].to_sql copies the scalar columns of the CSV into the
   compound rows as they are; desc[i] are those of compound i *)
WithDescriptors(d, desc) ==
    [exists |-> d.exists,
     rows   |-> [t \in DOMAIN d.rows |->
                    IF t = "compound"
                    THEN {c @@ desc[c.id] : c \in d.rows[t]}
                    ELSE d.rows[t]]]

(* descriptors that are all exactly at the limits of the export's filter,
   and descriptors of which one is beyond its limit; at most one compound
   of a store has the latter *)
AtThresholds ==
    [lipinski_rule_of_five_violations |-> 1,
     hydrogen_bond_donors_lipinski |-> 5,
     hydrogen_bond_acceptors_lipinski |-> 10,
     molecular_weight |-> 500,
     alogp |-> 5,
     qed_drug_likeliness |-> 67,
     topological_polar_surface_area |-> 140]

Beyond(k) ==
    [AtThresholds EXCEPT ![k] = IF k = "qed_drug_likeliness" THEN @ - 1 ELSE @ + 1]

(* update_organism_tax_ids and update_other_organism_ids_by_wcvp over the
   published reference files: the stores the two reconcilers can leave *)
Reconciled(d) ==
    LET Load(x, t, rows) == to_sql(CreateTable(DropTable(x, t), t), t, rows).db
        Tax(x) == {DropTable(b, "taxonomy_name") :
                     b \in UNION {UpdateTaxIdsByAnyName(a) :
                                    a \in UpdateTaxIdsByScientificName(
                                             Load(x, "taxonomy_name",
                                                  TaxonomyRows(PublishedTax)))}}
        Wcvp(x) == {DropTable(b, "wcvp_plant") :
                      b \in UNION {UpdateIdsBySynonym(a) :
                                     a \in UpdateIdsByAcceptedName(
                                              Load(x, "wcvp_plant",
                                                   WcvpRows(PublishedWcvp)))}}
    IN  UNION {Wcvp(x) : x \in Tax(d)}

(* the datasets of up to MaxApiRows rows that import_data loads *)
ApiDatasets ==
    {src \in UNION {[1..n -> SourcePool] : n \in 0..MaxApiRows} :
        Expanded(src, Len(MultiCols)).ok}

InitApi ==
    \E src \in ApiDatasets :
        \E d \in Reconciled(Expanded(src, Len(MultiCols)).db) :
            \E k \in Descriptors, i \in Ids(d, "compound") \cup {0} :
                LET desc == [j \in Ids(d, "compound") |->
                                IF j = i THEN Beyond(k) ELSE AtThresholds]
                IN  /\ pc = "Done"
                    /\ db = WithDescriptors(d, desc)
                    /\ df = <<>>
                    /\ inserted = Expanded(src, Len(MultiCols)).inserted
                    /\ files = {"data_zip", "taxdmp_zip", "wcvp_zip"}
                    /\ path_to_file = NONE
                    /\ force_download = FALSE
                    /\ keep_files = TRUE
                    /\ error = "none"
                    /\ abortedAt = "none"
                    /\ fetched = {}
                    /\ first = <<>>
                    /\ prev = "none"
                    /\ remote = [source |-> src, tax |-> PublishedTax,
                                 wcvp |-> PublishedWcvp]
                    /\ NothingServed

(* f restricted to the parameters in S *)
Restrict(f, S) == [k \in S |-> f[k]]

(* the query strings of the requests to /compounds/ *)
SearchRequests ==
    {Restrict([offset |-> o, limit |-> l, identifier |-> i], S) :
        o \in {2, 3}, l \in {0, 2, 101}, i \in {"3"},
        S \in SUBSET {"offset", "limit", "identifier"}}

(* a request is answered: nothing of the import changes.  Requests are
   served between imports, never during one *)
Served(req, resp, zip, fs, n) ==
    /\ request' = req
    /\ response' = resp
    /\ ttls' = zip
    /\ files' = fs
    /\ neo4j' = n
    /\ UNCHANGED <<pc, db, path_to_file, force_download, keep_files, df,
                   inserted, error, abortedAt, fetched, first, prev, remote>>

(* GET /compounds/ *)
SearchCompounds(q) ==
    /\ pc = "Done"
    /\ Served([endpoint |-> "compounds", params |-> q],
              search_compounds(q, db), ttls, files, neo4j)

(* GET /export_ttls/: the archive is made if it is absent or force_create is
   given, and sent *)
ExportTtls(force_create) ==
    /\ pc = "Done"
    /\ LET zip == IF "ttls_zip" \notin files \/ force_create
                  THEN create_ttls(db) ELSE ttls
       IN  Served([endpoint |-> "export_ttls",
                   params |-> [force_create |-> force_create]],
                  [status |-> 200, body |-> zip],
                  zip, files \cup {"ttls_zip"}, neo4j)

(* GET /export_ttls/ when create_ttls raises: the store cannot be read *)
ExportTtlsFails(force_create) ==
    /\ pc = "Done"
    /\ "ttls_zip" \notin files \/ force_create
    /\ Served([endpoint |-> "export_ttls",
               params |-> [force_create |-> force_create]],
              [status |-> 500, body |-> "Error generating TTL files"],
              ttls, files, neo4j)

(* GET /import_neo4j/: the HTTPException(405) is raised inside the try block
   and is an Exception, so the except clause turns it into a 500; with the
   archive present the importer runs and succeeds or raises *)
ImportNeo4j ==
    /\ pc = "Done"
    /\ IF "ttls_zip" \notin files
       THEN Served([endpoint |-> "import_neo4j", params |-> <<>>],
                   [status |-> 500, body |-> "Error importing data into Neo4j"],
                   ttls, files, neo4j)
       ELSE /\ neo4j < MaxImports
            /\ \E ok \in BOOLEAN :
                   Served([endpoint |-> "import_neo4j", params |-> <<>>],
                          IF ok
                          THEN [status |-> 200, body |-> "Neo4j import completed"]
                          ELSE [status |-> 500,
                                body |-> "Error importing data into Neo4j"],
                          ttls, files, neo4j + 1)

NextApi ==
    \/ \E q \in SearchRequests : SearchCompounds(q)
    \/ \E force_create \in BOOLEAN : ExportTtls(force_create)
    \/ \E force_create \in BOOLEAN : ExportTtlsFails(force_create)
    \/ ImportNeo4j

SpecApi == InitApi /\ [][NextApi]_vars


-----------------------------------------------------------------------------
(* Properties *)

(* the order of the steps as the specification gives it *)
ClaimedOrder ==
    <<"SchemaReset", "Parsed",
      "chemical_super_class", "chemical_class", "chemical_sub_class",
      "direct_parent_classification", "np_classifier_pathway",
      "np_classifier_superclass", "np_classifier_class",
      "CompoundsLoaded",
      "collections", "organisms", "dois", "synonyms", "cas_numbers",
      "TaxNamesImported", "TaxPassA", "TaxPassB", "TaxonomyReconciled",
      "WcvpLoaded", "WcvpPassA", "WcvpPassB", "PlantNamesReconciled",
      "Cleanup", "Done">>

Position(s) == CHOOSE i \in 1..Len(ClaimedOrder) : ClaimedOrder[i] = s

(* the step that writes a durable table *)
WrittenAt(t) ==
    CASE t \in ClassTables -> t
      [] t = "compound" -> "CompoundsLoaded"
      [] t \in {"collection", "compound__collection"} -> "collections"
      [] t \in {"organism", "compound__organism"} -> "organisms"
      [] t \in {"doi", "compound_doi"} -> "dois"
      [] t \in {"synonym", "compound__synonym"} -> "synonyms"
      [] t \in {"cas", "compound_cas"} -> "cas_numbers"
      [] t = "taxonomy_name" -> "TaxNamesImported"
      [] t = "wcvp_plant" -> "WcvpLoaded"

DurableTables == MetadataTables \ TransientTables

(* while a call is in progress: a table has a recorded count exactly when its
   step has completed, and a table whose step has not completed is empty *)
StepsDoneInOrder ==
    pc \in Range(ClaimedOrder) =>
        \A t \in DurableTables :
            /\ t \in DOMAIN inserted <=> Position(WrittenAt(t)) <= Position(pc)
            /\ Position(WrittenAt(t)) > Position(pc) => db.rows[t] = {}

(* a call moves from each step to the one that follows it in the order, or
   ends by an exception; a call starts only when none is in progress *)
StepsTakenInOrder ==
    pc' # pc =>
        \/ pc \in {"Idle", "Done", "Aborted"} /\ pc' \in {"SchemaReset", "Aborted"}
        \/ pc \in Range(ClaimedOrder) \ {"Done"}
           /\ pc' \in {ClaimedOrder[Position(pc) + 1], "Aborted"}

(* C1: every call of import_data goes through its steps in one fixed linear
   order - schema reset, read, the seven classification lookups, the compound
   load, the five association expansions (collections, organisms, DOIs,
   synonyms, CAS), the taxonomy reconciliation, the plant-names
   reconciliation, cleanup, return - one step at a time, without branching,
   repetition or retry, and a step's tables are written only once the steps
   before it have completed *)
C1_LinearOrder == [](StepsDoneInOrder) /\ [][StepsTakenInOrder]_vars

(* a first call has returned after loading at least two compounds *)
C1_Witness ==
    /\ pc = "Done"
    /\ prev = "none"
    /\ Cardinality(db.rows["compound"]) >= 2
    /\ DOMAIN inserted = DurableTables


(* C2: a step that raises ends the call there: whenever an exception has been
   raised the call is at Aborted with no result map, the raising step leaves
   the source file in place (no cleanup) and the first-call observation
   untouched, and from Aborted nothing happens but a new call, which begins
   again with the schema reset *)
C2_AbortStopsRun ==
    /\ [](error # "none" => pc = "Aborted" /\ inserted = NoCounts /\ df = <<>>)
    /\ [][/\ pc' = "Aborted" /\ pc # "Aborted" =>
                /\ error' # "none"
                /\ first' = first
                /\ (SourcePath \in files => SourcePath \in files')
          /\ pc = "Aborted" /\ pc' = "Aborted" => db' = db /\ UNCHANGED files
          /\ pc = "Aborted" /\ pc' # "Aborted" =>
                /\ pc' = "SchemaReset"
                /\ \A t \in MetadataTables : db'.rows[t] = {}]_vars

(* a call was ended by a constraint violation or a missing column value after
   it had loaded the compounds *)
C2_Witness ==
    /\ pc = "Aborted"
    /\ error = "AttributeError"
    /\ db.rows["compound"] # {}
    /\ SourcePath \in files

RowCounts(d) == [t \in DurableTables |-> Cardinality(d.rows[t])]

(* C3: a call that completes after the first call has completed on the same
   source returns the same counts and leaves the same number of rows in every
   table as the first one did, and such a call is never ended by rows left
   over from an earlier call (a constraint violation) *)
C3_NoAccumulation ==
    first # <<>> =>
        /\ pc = "Done" => /\ inserted = first[1].counts
                          /\ RowCounts(db) = RowCounts(first[1].store)
        /\ pc = "Aborted" => error # "IntegrityError"

(* two calls in succession have completed on a dataset of two compounds *)
C3_Witness ==
    /\ pc = "Done"
    /\ prev = "done"
    /\ first # <<>>
    /\ inserted["compound"] = 2
    /\ inserted["compound__organism"] >= 2

(* C4: the schema reset leaves every table of the schema in existence and
   empty whatever the call before left behind, and a call that completes
   after an aborted one leaves the store with exactly the contents the first
   call, which ran on the empty store, produced *)
C4_ResetDiscardsPartialState ==
    /\ pc = "SchemaReset" =>
          /\ db.exists = MetadataTables
          /\ \A t \in MetadataTables : db.rows[t] = {}
    /\ pc = "Done" /\ first # <<>> => db = first[1].store

(* a call completed after a call that was aborted inside a reconciliation
   pass, while the reference table existed *)
C4_Witness ==
    /\ pc = "Done"
    /\ prev = "abortedInReconciliation"
    /\ first # <<>>
    /\ db.rows["compound__organism"] # {}

(* C5: no rollback: after a call that was aborted at any step after its
   schema reset, every table written by a step after the one that raised is
   empty, also when an earlier call had filled it *)
C5_NoRollback ==
    pc = "Aborted" /\ abortedAt # "Start" =>
        \A t \in MetadataTables :
            Position(WrittenAt(t)) > Position(abortedAt) + 1 => db.rows[t] = {}

(* the first call imported compounds; a later call was aborted when it
   obtained the source file, and the store is empty *)
C5_Witness ==
    /\ pc = "Aborted"
    /\ abortedAt = "SchemaReset"
    /\ first # <<>>
    /\ first[1].store.rows["compound"] # {}
    /\ db.rows["compound"] = {}


(* the expander of column c has run in the call in progress *)
Expanded_(c) == pc \in Range(ClaimedOrder) \ {"Done"} /\ Position(pc) >= Position(c)

(* join rows of column c that link compound i to the lookup row named v *)
Links(c, i, v) ==
    {j \in db.rows[JoiningModel(c)] :
        /\ j.compound_id = i
        /\ \E e \in db.rows[Model(c)] : e.id = j.entity_id /\ e.name = v}

(* C6: once import_n2m_column has run for a column, every token of every
   non-null cell - split on "|" and trimmed - is linked to its compound by
   exactly one join row whose lookup row holds the trimmed token, and every
   join row links a compound to a value its cell contains *)
C6_EveryTokenLinked ==
    \A c \in Range(MultiCols) :
        Expanded_(c) =>
            /\ \A i \in 1..Len(df) :
                  df[i][c] # NaN =>
                      \A tok \in Range(split(df[i][c], "|")) :
                          Cardinality(Links(c, i, strip(tok))) = 1
            /\ \A j \in db.rows[JoiningModel(c)] :
                  /\ df[j.compound_id][c] # NaN
                  /\ \E tok \in Range(split(df[j.compound_id][c], "|")) :
                        Links(c, j.compound_id, strip(tok)) = {j}

(* the materializer of column c has run in the call in progress *)
Materialized_(c) == pc \in Range(ClaimedOrder) \ {"Done"} /\ Position(pc) >= Position(c)

(* C7 as stated: values are compared after stripping, so values that differ
   only in surrounding whitespace share one lookup row and one id *)
C7_StrippedBeforeComparison ==
    \A c \in ClassTables :
        Materialized_(c) =>
            /\ \A i, j \in 1..Len(df) :
                  /\ df[i][c] # NaN
                  /\ df[j][c] # NaN
                  /\ strip(df[i][c]) = strip(df[j][c])
                  => df[i][IdCol(c)] = df[j][IdCol(c)]
            /\ \A e1, e2 \in db.rows[c] : strip(e1.name) = strip(e2.name) => e1 = e2

(* C7 as amended: values are compared exactly as read: the lookup table holds
   one row per distinct non-null value, unstripped, and every source row with
   a value has the id of the row holding exactly that value - so two values
   that differ only in surrounding whitespace get two rows and two ids *)
C7_ExactComparison ==
    \A c \in ClassTables :
        Materialized_(c) =>
            /\ \A i \in 1..Len(df) :
                  df[i][c] # NaN =>
                      \E e \in db.rows[c] : e.id = df[i][IdCol(c)] /\ e.name = df[i][c]
            /\ \A e \in db.rows[c] : \E i \in 1..Len(df) : df[i][c] = e.name
            /\ \A e1, e2 \in db.rows[c] : e1.name = e2.name => e1 = e2

(* a column held "A" and " A": two lookup rows, two ids *)
C7_Witness ==
    /\ Materialized_("chemical_class")
    /\ Len(df) = 2
    /\ df[1]["chemical_class"] = <<"A">>
    /\ df[2]["chemical_class"] = <<" ", "A">>
    /\ df[1]["chemical_class_id"] # df[2]["chemical_class_id"]
    /\ Cardinality(db.rows["chemical_class"]) = 2

(* rows of the loaded plant-names table an organism name matches *)
PlantRows == Range(WcvpRows(remote.wcvp))

MatchesAccepted(o) ==
    {r \in PlantRows : r.taxon_name = o.name
                       /\ r.plant_name_id = r.accepted_plant_name_id}

MatchesSynonym(o) ==
    {r \in PlantRows : /\ r.taxon_name = o.name
                       /\ r.accepted_plant_name_id # NULL
                       /\ r.plant_name_id # r.accepted_plant_name_id}

OnlyBySynonym(o) == MatchesAccepted(o) = {} /\ MatchesSynonym(o) # {}

PlantPassesDone == pc \in {"WcvpPassB", "PlantNamesReconciled"}

(* C8: an organism matched only through a synonym row ends with the accepted
   plant's identifiers: wcvp_id is the synonym's accepted_plant_name_id, and
   ipni_id and powo_id are those of the row with that plant_name_id *)
C8_AcceptedIdentifiers ==
    PlantPassesDone =>
        \A o \in db.rows["organism"] :
            OnlyBySynonym(o) =>
                \E r \in MatchesSynonym(o) :
                    /\ o.wcvp_id = r.accepted_plant_name_id
                    /\ \A q \in PlantRows :
                          q.plant_name_id = r.accepted_plant_name_id =>
                              o.ipni_id = q.ipni_id /\ o.powo_id = q.powo_id

(* C9: an organism matched only through synonym rows ends with the
   accepted_plant_name_id of a matching synonym row as wcvp_id, never with the
   plant_name_id of a matching synonym row *)
C9_AcceptedIdNotSynonymId ==
    PlantPassesDone =>
        \A o \in db.rows["organism"] :
            OnlyBySynonym(o) =>
                /\ o.wcvp_id \in {r.accepted_plant_name_id : r \in MatchesSynonym(o)}
                /\ o.wcvp_id \notin {r.plant_name_id : r \in MatchesSynonym(o)}

(* the example of the specification: the name matches row 5 with accepted id
   9, row 9 is in the table, the organism ends with wcvp_id 9 *)
C9_Witness ==
    /\ pc = "PlantNamesReconciled"
    /\ \E o \in db.rows["organism"] :
          /\ OnlyBySynonym(o)
          /\ {r.plant_name_id : r \in MatchesSynonym(o)} = {5}
          /\ \E q \in PlantRows : q.plant_name_id = 9 /\ q.accepted_plant_name_id = 9
          /\ o.wcvp_id = 9

TaxRows == Range(TaxonomyRows(remote.tax))

ScientificIds(o) ==
    {r.tax_id : r \in {q \in TaxRows : q.name = o.name
                                       /\ q.name_type = <<"scientific name">>}}

AnyIds(o) == {r.tax_id : r \in {q \in TaxRows : q.name = o.name}}

(* C10: after Pass A an organism has a tax_id exactly when a "scientific
   name" row matches its name, and then the tax_id of such a row; after Pass B
   an organism matched only by rows of other name types has the tax_id of a
   matching row; Pass B changes no organism that had a tax_id after Pass A,
   so a tax_id set from a scientific name is still that of a scientific-name
   row after Pass B, whatever rows of other types carry *)
C10_ScientificNameFirst ==
    /\ [](/\ pc = "TaxPassA" =>
               \A o \in db.rows["organism"] :
                   IF ScientificIds(o) = {} THEN o.tax_id = NULL
                   ELSE o.tax_id \in ScientificIds(o)
          /\ pc \in {"TaxPassB", "TaxonomyReconciled"} =>
               \A o \in db.rows["organism"] :
                   IF ScientificIds(o) # {} THEN o.tax_id \in ScientificIds(o)
                   ELSE IF AnyIds(o) # {} THEN o.tax_id \in AnyIds(o)
                   ELSE o.tax_id = NULL)
    /\ [][pc = "TaxPassA" /\ pc' = "TaxPassB" =>
             \A o \in db.rows["organism"] :
                 o.tax_id # NULL => o \in db'.rows["organism"]]_vars

(* after Pass B: one organism kept the tax_id of its scientific name although
   a common name of the same text carries another, and one organism matched
   by a synonym only got its tax_id in Pass B *)
C10_Witness ==
    /\ pc = "TaxPassB"
    /\ \E o \in db.rows["organism"] :
          /\ ScientificIds(o) # {}
          /\ AnyIds(o) \ ScientificIds(o) # {}
          /\ o.tax_id \in ScientificIds(o)
    /\ \E o \in db.rows["organism"] :
          /\ ScientificIds(o) = {}
          /\ o.tax_id # NULL


BackfillPasses == {"TaxPassA", "TaxPassB", "WcvpPassA", "WcvpPassB"}

(* q is organism o after a step that changed none of o's filled identifiers *)
KeepsFilledFields(o, q) ==
    /\ q.id = o.id
    /\ q.name = o.name
    /\ o.tax_id # NULL => q.tax_id = o.tax_id
    /\ o.wcvp_id # NULL => q.wcvp_id = o.wcvp_id
    /\ o.powo_id # NONE => q.powo_id = o.powo_id
    /\ o.ipni_id # NONE => q.ipni_id = o.ipni_id

(* C11: each of the four passes of the external-id backfill leaves every
   organism field among tax_id, wcvp_id, powo_id, ipni_id that was non-null
   before the pass as it was: a pass only writes fields that were null *)
C11_OnlyNullFieldsWritten ==
    [][pc' \in BackfillPasses /\ pc' # pc =>
          \A o \in db.rows["organism"] :
              \E q \in db'.rows["organism"] : KeepsFilledFields(o, q)]_vars

(* both second passes had rows that match an organism already filled by the
   first pass, and the organism kept what the first pass gave it *)
C11_Witness ==
    /\ pc = "WcvpPassB"
    /\ \E o \in db.rows["organism"] :
          /\ MatchesAccepted(o) # {}
          /\ MatchesSynonym(o) # {}
          /\ o.wcvp_id \in {r.plant_name_id : r \in MatchesAccepted(o)}
          /\ ScientificIds(o) # {}
          /\ AnyIds(o) \ ScientificIds(o) # {}
          /\ o.tax_id \in ScientificIds(o)


(* C12: in every state each join row refers to a compound row and to a row
   of the joined lookup table that exist in the store *)
C12_JoinRowsReferToExistingRows ==
    \A t \in JoinTables :
        \A j \in db.rows[t] :
            /\ \E k \in db.rows["compound"] : k.id = j.compound_id
            /\ \E e \in db.rows[JoinEntity(t)] : e.id = j.entity_id

(* all five expansions have written join rows *)
C12_Witness ==
    /\ pc = "cas_numbers"
    /\ \A t \in JoinTables : db.rows[t] # {}


(* the steps from which an association expansion is entered *)
BeforeExpansion ==
    {"CompoundsLoaded"} \cup {MultiCols[i] : i \in 1..(Len(MultiCols) - 1)}

(* C13: no join table holds two rows with the same (compound_id, entity_id)
   pair; a token repeated inside a cell gives one join row for its compound,
   the expansion is not stopped by the repeated pair, and the count recorded
   for the join table is the number of its rows *)
C13_OneJoinRowPerPair ==
    /\ \A t \in JoinTables :
          \A r, q \in db.rows[t] : PrimaryKey(t, r) = PrimaryKey(t, q) => r = q
    /\ error = "IntegrityError" => abortedAt \notin BeforeExpansion
    /\ \A c \in Range(MultiCols) :
          Expanded_(c) =>
              /\ inserted[JoiningModel(c)] = Cardinality(db.rows[JoiningModel(c)])
              /\ \A i \in 1..Len(df) :
                    df[i][c] # NaN =>
                        \A tok \in Range(split(df[i][c], "|")) :
                            strip(tok) = tok => Cardinality(Links(c, i, tok)) = 1

(* the cell "A|A|  B " has been expanded: one join row links the compound
   to A *)
C13_Witness ==
    /\ pc = "collections"
    /\ Len(df) >= 1
    /\ df[1]["collections"] = <<"A", "|", "A", "|", " ", " ", "B", " ">>
    /\ Cardinality(Links("collections", 1, <<"A">>)) = 1
    /\ inserted["compound__collection"] = 1


(* distinct non-null values of a classification column of the frame *)
ClassValues(c) == {df[i][c] : i \in 1..Len(df)} \ {NaN}

(* distinct trimmed tokens of a multi-value column of the frame *)
TokenValues(c) ==
    UNION {{strip(tok) : tok \in Range(split(df[i][c], "|"))} :
              i \in {k \in 1..Len(df) : df[k][c] # NaN}}

(* C14: every lookup table holds no value twice and its ids are exactly
   1..K without a gap, each table counting from 1 on its own; once the table
   is written K is the number of distinct non-null values of its column *)
C14_DenseIdsPerLookupTable ==
    /\ \A t \in ClassTables \cup AssocTables :
          /\ {r.id : r \in db.rows[t]} = 1..Cardinality(db.rows[t])
          /\ \A r, q \in db.rows[t] : r.name = q.name => r = q
    /\ \A c \in ClassTables :
          Materialized_(c) => Cardinality(db.rows[c]) = Cardinality(ClassValues(c))
    /\ \A c \in Range(MultiCols) :
          Expanded_(c) =>
              Cardinality(db.rows[Model(c)]) = Cardinality(TokenValues(c))

(* a classification table and an association table both hold the ids 1, 2 *)
C14_Witness ==
    /\ pc = "cas_numbers"
    /\ {r.id : r \in db.rows["chemical_class"]} = {1, 2}
    /\ {r.id : r \in db.rows["doi"]} = {1, 2}
    /\ {r.id : r \in db.rows["collection"]} = {1, 2}


(* the source table as read *)
SourceFrame == read_csv(remote.source)

(* C15: after insert_one_to_n_table for a column the frame has the rows of
   the source table in the same order, every source column unchanged, plus
   the column <column>_id: null where the value is null, otherwise the id of
   the lookup row whose name is the row's value *)
C15_LeftJoinKeepsRows ==
    \A c \in ClassTables :
        Materialized_(c) =>
            /\ Len(df) = Len(SourceFrame)
            /\ \A i \in 1..Len(df) :
                  /\ \A k \in DOMAIN SourceFrame[i] : df[i][k] = SourceFrame[i][k]
                  /\ IdCol(c) \in DOMAIN df[i]
                  /\ df[i][c] = NaN => df[i][IdCol(c)] = NULL
                  /\ df[i][c] # NaN =>
                        /\ df[i][IdCol(c)] # NULL
                        /\ \E e \in db.rows[c] :
                              e.id = df[i][IdCol(c)] /\ e.name = df[i][c]

(* a column with a null and a non-null value was materialized *)
C15_Witness ==
    /\ pc = "direct_parent_classification"
    /\ Len(df) = 2
    /\ df[1]["direct_parent_classification"] = NaN
    /\ df[1]["direct_parent_classification_id"] = NULL
    /\ df[2]["direct_parent_classification"] = <<"D">>
    /\ df[2]["direct_parent_classification_id"] = 1


(* the compound bulk load of the call in progress is done *)
CompoundsLoaded_ ==
    pc \in Range(ClaimedOrder) \ {"Done"}
        /\ Position(pc) >= Position("CompoundsLoaded")

(* C16: after the bulk load the compound table holds one row per source row,
   the i-th source row under primary key i, ids 1..n without a gap; a row
   carries the identifier and the seven <column>_id foreign keys of the frame
   and none of the classification or multi-value name columns; the count
   recorded for the table is the number of source rows *)
C16_CompoundRowPerSourceRow ==
    CompoundsLoaded_ =>
        /\ Cardinality(db.rows["compound"]) = Len(SourceFrame)
        /\ {k.id : k \in db.rows["compound"]} = 1..Len(SourceFrame)
        /\ \A i \in 1..Len(SourceFrame) :
              \E k \in db.rows["compound"] :
                  /\ k.id = i
                  /\ k.identifier = SourceFrame[i].identifier
                  /\ \A c \in ClassTables : k[IdCol(c)] = df[i][IdCol(c)]
                  /\ DOMAIN k \cap (ClassTables \cup Range(MultiCols)) = {}
        /\ inserted["compound"] = Len(SourceFrame)

(* two source rows were loaded under the keys 1 and 2 *)
C16_Witness ==
    /\ pc = "CompoundsLoaded"
    /\ Len(SourceFrame) = 2
    /\ \E k \in db.rows["compound"] :
          k.id = 2 /\ k.identifier = SourceFrame[2].identifier
    /\ inserted["compound"] = 2


(* the compounds of the last call are loaded: the call is past the bulk load,
   has returned, or was aborted after the bulk load *)
AfterBulkLoad ==
    \/ CompoundsLoaded_
    \/ pc = "Done"
    \/ /\ pc = "Aborted"
       /\ abortedAt \in Range(ClaimedOrder)
       /\ Position(abortedAt) >= Position("CompoundsLoaded")

(* C17: a compound whose cell of a multi-value column is null is in no row
   of that column's join table and is a row of the compound table, during the
   rest of the import and after it *)
C17_NullCellNoJoinRows ==
    AfterBulkLoad =>
        \A c \in Range(MultiCols) :
            \A i \in 1..Len(SourceFrame) :
                SourceFrame[i][c] = NaN =>
                    /\ \A j \in db.rows[JoiningModel(c)] : j.compound_id # i
                    /\ \E k \in db.rows["compound"] : k.id = i

(* the import is complete; the second compound has no collections, the
   first has *)
C17_Witness ==
    /\ pc = "Done"
    /\ Len(SourceFrame) = 2
    /\ SourceFrame[2]["collections"] = NaN
    /\ SourceFrame[1]["collections"] # NaN
    /\ {j.compound_id : j \in db.rows["compound__collection"]} = {1}
    /\ {k.id : k \in db.rows["compound"]} = {1, 2}


TaxPassesDone ==
    pc \in {"TaxPassB", "TaxonomyReconciled", "WcvpLoaded", "WcvpPassA",
            "WcvpPassB", "PlantNamesReconciled"}

(* C18: reconciliation never fails or stops because an organism has no
   match: no error is raised and every step up to the last stays possible;
   an organism whose name is in no taxonomy row keeps a null tax_id, one whose
   name is in no accepted or synonym row of the plant names keeps null
   wcvp_id, powo_id and ipni_id *)
C18_NoMatchIsNotAnError ==
    /\ error = "none"
    /\ pc # "Aborted"
    /\ pc # "PlantNamesReconciled" => ENABLED NextRecon
    /\ TaxPassesDone =>
          \A o \in db.rows["organism"] : AnyIds(o) = {} => o.tax_id = NULL
    /\ PlantPassesDone =>
          \A o \in db.rows["organism"] :
              MatchesAccepted(o) = {} /\ MatchesSynonym(o) = {} =>
                  o.wcvp_id = NULL /\ o.powo_id = NONE /\ o.ipni_id = NONE

(* reconciliation is complete: one organism matched nothing and has four
   null identifiers, another was matched in both reference tables *)
C18_Witness ==
    /\ pc = "PlantNamesReconciled"
    /\ \E o \in db.rows["organism"] :
          /\ AnyIds(o) = {}
          /\ MatchesAccepted(o) = {} /\ MatchesSynonym(o) = {}
          /\ o.tax_id = NULL /\ o.wcvp_id = NULL
          /\ o.powo_id = NONE /\ o.ipni_id = NONE
    /\ \E o \in db.rows["organism"] : o.tax_id # NULL /\ o.wcvp_id # NULL


(* rows a step inserts into table t: the rows under a new primary key *)
InsertedByStep(t) ==
    {r \in db'.rows[t] :
        \A q \in db.rows[t] : PrimaryKey(t, q) # PrimaryKey(t, r)}

(* C19 as stated: the returned map has an entry, the number of inserted
   rows, for every table the run inserted rows into: every step that inserts
   rows into a table and does not abort the run records a count for that
   table, and the map returned holds the counts of the tables *)
C19_EntryForEveryTouchedTable ==
    /\ [][\A t \in MetadataTables :
             InsertedByStep(t) # {} /\ pc' # "Aborted" /\ pc' # "SchemaReset" =>
                 t \in DOMAIN inserted']_vars
    /\ [](pc = "Done" =>
             \A t \in DOMAIN inserted : inserted[t] = Cardinality(db.rows[t]))

(* C19 as amended: the returned map has exactly one entry for each of the
   eighteen persistent tables (seven classification tables, compound, five
   association lookup tables, five join tables), the number of rows the run
   inserted into it, which is the number of rows the table holds at the end;
   the two reference tables that the reconciliation fills and drops
   (taxonomy_name, wcvp_plant) never get an entry *)
C19_EntryForEveryPersistentTable ==
    /\ [][\A t \in DurableTables :
             InsertedByStep(t) # {} /\ pc' # "Aborted" /\ pc' # "SchemaReset" =>
                 /\ t \in DOMAIN inserted'
                 /\ inserted'[t] = Cardinality(InsertedByStep(t))]_vars
    /\ [](DOMAIN inserted \cap TransientTables = {})
    /\ [](pc \in {"Cleanup", "Done"} =>
             /\ DOMAIN inserted = DurableTables
             /\ \A t \in DurableTables : inserted[t] = Cardinality(db.rows[t]))

(* a run over two source rows has returned its eighteen counts *)
C19_Witness ==
    /\ pc = "Done"
    /\ DOMAIN inserted = DurableTables
    /\ Cardinality(DurableTables) = 18
    /\ inserted["compound"] = 2
    /\ inserted["organism"] = 2
    /\ inserted["compound__organism"] = 3


(* the archives a run works with: the dataset, the taxonomy dump, the plant
   names *)
RunArchives == {SourcePath, "taxdmp_zip", "wcvp_zip"}

(* C20: when the cleanup step of a successful run is done, with
   keep_files=False none of the three archives the run used exists locally,
   with keep_files=True all three exist; after an abort during or after the
   read of the dataset the dataset archive still exists *)
C20_TemporaryArtifactsRemoved ==
    /\ pc = "Cleanup" /\ ~keep_files => RunArchives \cap files = {}
    /\ pc = "Cleanup" /\ keep_files => RunArchives \subseteq files
    /\ /\ pc = "Aborted"
       /\ abortedAt \in Range(ClaimedOrder)
       /\ Position(abortedAt) >= Position("Parsed")
       => SourcePath \in files


(* a step that needs archive a retrieves it exactly when the archive is
   absent or the call asked for a forced download *)
RetrievedWhenDue(a) == a \in fetched' <=> (a \notin files \/ force_download)

(* C21: each of the three archives is reused without a download when it is
   present and force_download is false, downloaded again when force_download
   is true, and downloaded when it is absent: the dataset archive at the read
   of the source (when no file was supplied), the taxonomy archive at the
   import of the taxonomy names, the plant-names archive at the load of the
   plant names *)
C21_ForceFlagRefreshesEveryArtifact ==
    [][/\ pc = "SchemaReset" /\ pc' = "Parsed" /\ path_to_file = NONE
             => RetrievedWhenDue("data_zip")
       /\ pc' = "TaxNamesImported" /\ pc' # pc => RetrievedWhenDue("taxdmp_zip")
       /\ pc' = "WcvpLoaded" /\ pc' # pc => RetrievedWhenDue("wcvp_zip")]_vars


(* first row of the frame that holds value v in column c *)
FirstAt(c, v) == CHOOSE i \in 1..Len(df) : df[i][c] = v /\ \A k \in 1..(i - 1) : df[k][c] # v

(* distinct non-null values of column c of a source file *)
ValuesOf(src, c) == {read_csv(src)[i][c] : i \in 1..Len(src)} \ {NaN}

(* C22: the materializer gives a name the id that is its rank by first
   occurrence among the distinct non-null values of the source rows, so the
   ids are a function of the row order; when the materializer has run, any
   source file with the same distinct non-null values, in whatever row
   order, yields the same set of names with ids 1..N *)
C22_IdIsRankOfFirstOccurrence ==
    \A c \in ClassTables :
        Materialized_(c) =>
            /\ \A e \in db.rows[c] :
                  e.id = Cardinality({v \in ClassValues(c) :
                                         FirstAt(c, v) <= FirstAt(c, e.name)})
            /\ pc = c =>
                  \A src \in Datasets :
                      ValuesOf(src, c) = ClassValues(c) =>
                          LET cc == df_cc(read_csv(src), c)
                          IN  /\ Range(cc) = {e.name : e \in db.rows[c]}
                              /\ DOMAIN cc = {e.id : e \in db.rows[c]}

(* two values were materialized in the order of the rows, and the file with
   the rows swapped has the same values and gives them the other ids *)
C22_Witness ==
    /\ pc = "chemical_class"
    /\ Len(df) = 2
    /\ df[1]["chemical_class_id"] = 1
    /\ df[2]["chemical_class_id"] = 2
    /\ \E src \in Datasets :
          /\ ValuesOf(src, "chemical_class") = ClassValues("chemical_class")
          /\ df_cc(read_csv(src), "chemical_class")[1] = df[2]["chemical_class"]

(* organism q carries the three plant identifiers of row r *)
IdsFromRow(q, r) ==
    /\ q.wcvp_id = r.plant_name_id
    /\ q.ipni_id = r.ipni_id
    /\ q.powo_id = r.powo_id

(* C24: accepted names are preferred over synonyms: the first plant-names
   pass gives an organism whose name matches a self-accepted row the wcvp_id,
   ipni_id and powo_id of such a row, and the synonym pass leaves these three
   fields of that organism as they were *)
C24_AcceptedPreferredOverSynonym ==
    [][/\ pc' = "WcvpPassA" /\ pc' # pc =>
             \A q \in db'.rows["organism"] :
                 MatchesAccepted(q) # {} =>
                     \E r \in MatchesAccepted(q) : IdsFromRow(q, r)
       /\ pc' = "WcvpPassB" /\ pc' # pc =>
             \A o \in db.rows["organism"] :
                 MatchesAccepted(o) # {} =>
                     \E q \in db'.rows["organism"] :
                         /\ q.id = o.id
                         /\ q.wcvp_id = o.wcvp_id
                         /\ q.ipni_id = o.ipni_id
                         /\ q.powo_id = o.powo_id]_vars

(* both passes have run over an organism whose name is that of the
   self-accepted row 7 and of the synonym rows 5 and 4, and it carries the
   identifiers of row 7 *)
C24_Witness ==
    /\ pc = "WcvpPassB"
    /\ \E o \in db.rows["organism"] :
          /\ {r.plant_name_id : r \in MatchesAccepted(o)} = {7}
          /\ {r.plant_name_id : r \in MatchesSynonym(o)} \cap {4, 5} # {}
          /\ o.wcvp_id = 7
          /\ o.ipni_id = "i7"
          /\ o.powo_id = "p7"

(* the position after the second update pass over a transient table, and
   the position after its drop *)
SecondPass(t) == IF t = "taxonomy_name" THEN "TaxPassB" ELSE "WcvpPassB"

ReconciledWith(t) ==
    IF t = "taxonomy_name" THEN "TaxonomyReconciled" ELSE "PlantNamesReconciled"

(* C25: a transient reference table (taxonomy_name, wcvp_plant) stops
   existing only in the step that follows the commit of its second update
   pass, and when import_data returns neither of them exists *)
C25_TransientDroppedAfterPasses ==
    [][/\ \A t \in TransientTables :
             t \in db.exists /\ t \notin db'.exists =>
                 pc = SecondPass(t) /\ pc' = ReconciledWith(t)
       /\ pc' = "Done" => TransientTables \cap db'.exists = {}]_vars

(* a run has returned: both tables were loaded, both pairs of passes filled
   an organism, and the tables are gone *)
C25_Witness ==
    /\ pc = "Done"
    /\ TransientTables \cap db.exists = {}
    /\ \E o \in db.rows["organism"] : o.tax_id # NULL /\ o.wcvp_id # NULL
    /\ db.rows["taxonomy_name"] = {}
    /\ db.rows["wcvp_plant"] = {}

(* positions of a run at which the compound bulk load has finished and the
   call has not returned *)
BulkLoadFinished ==
    {Pipeline[i] : i \in Idx("CompoundsLoaded")..(Len(Pipeline) - 1)}

(* positions from which the step that follows is a reconciliation step *)
Reconciling ==
    {Pipeline[i] : i \in Idx(MultiCols[Len(MultiCols)])..Idx("WcvpPassB")}

IdAndName(t) == {[id |-> o.id, name |-> o.name] : o \in db.rows[t]}

(* C26: once the compound bulk load has finished, no later step of the run
   changes the rows of the compound table or of a classification lookup
   table; a reconciliation step leaves id and name of every organism row and
   every join table as they were *)
C26_LoadedRowsAreFrozen ==
    [][/\ pc \in BulkLoadFinished =>
             \A t \in {"compound"} \cup ClassTables :
                 /\ db'.rows[t] = db.rows[t]
                 /\ t \in db'.exists <=> t \in db.exists
       /\ pc \in Reconciling =>
             /\ IdAndName("organism")' = IdAndName("organism")
             /\ \A t \in JoinTables : db'.rows[t] = db.rows[t]]_vars

(* the reconciliation has filled an organism of a loaded, linked compound *)
C26_Witness ==
    /\ pc = "PlantNamesReconciled"
    /\ db.rows["compound"] # {}
    /\ db.rows["chemical_class"] # {}
    /\ db.rows["compound__organism"] # {}
    /\ \E o \in db.rows["organism"] :
          /\ o.tax_id # NULL
          /\ o.wcvp_id # NULL
          /\ o.powo_id # NONE
          /\ o.ipni_id # NONE

(* the DbManager holds the path of a file that is gone *)
SuppliedFileGone == path_to_file # NONE /\ path_to_file \notin files

(* C27: with keep_files false the cleanup of a successful import_data
   removes the source file it read, a file supplied by set_path_to_file
   included; a further import_data on that DbManager, the file not supplied
   again, aborts at the read of the source after the schema reset, with every
   table empty *)
C27_SuppliedFileIsConsumed ==
    [][/\ pc = "PlantNamesReconciled" /\ pc' = "Cleanup" /\ ~keep_files =>
             SourcePath \notin files'
       /\ pc = "SchemaReset" /\ pc' # pc /\ SuppliedFileGone =>
             /\ pc' = "Aborted"
             /\ abortedAt' = "SchemaReset"
             /\ \A t \in MetadataTables : db'.rows[t] = {}]_vars

(* the first import read the supplied file, filled the store and returned;
   the second one was aborted by the missing file and left the store empty *)
C27_Witness ==
    /\ pc = "Aborted"
    /\ prev = "done"
    /\ abortedAt = "SchemaReset"
    /\ error = "FileNotFoundError"
    /\ SuppliedFileGone
    /\ Len(first) = 1
    /\ first[1].store.rows["compound"] # {}
    /\ \A t \in MetadataTables : db.rows[t] = {}

(* C28: after a successful import every row of an association lookup table
   (collection, organism, doi, synonym, cas) is referenced by at least one
   row of its join table *)
C28_EveryLookupRowReferenced ==
    pc = "Done" =>
        \A c \in Range(MultiCols) :
            \A e \in db.rows[Model(c)] :
                \E j \in db.rows[JoiningModel(c)] : j.entity_id = e.id

(* C23: a paginated search over N matching rows with offset o and limit l
   answers with the matching rows of rank o+1..min(o+l, N) in id order, that
   is max(0, min(l, N-o)) rows, with count = N whatever offset and limit are,
   and with offset and limit echoed; a limit that is not given is 10 *)
C23_PageOfMatchingRows ==
    request.endpoint = "compounds" /\ response.status = 200 =>
        LET q    == request.params
            o    == IF "offset" \in DOMAIN q THEN q.offset ELSE 0
            l    == IF "limit" \in DOMAIN q THEN q.limit ELSE 10
            hits == {c \in db.rows["compound"] :
                        "identifier" \in DOMAIN q => c.identifier = q.identifier}
            N    == Cardinality(hits)
            size == IF l < N - o THEN l ELSE IF N - o < 0 THEN 0 ELSE N - o
            Rank(c) == Cardinality({x \in hits : x.id <= c.id})
            page == response.body
        IN  /\ page.count = N
            /\ page.offset = o
            /\ page.limit = l
            /\ Len(page.results) = size
            /\ \A j \in 1..Len(page.results) :
                  /\ page.results[j] \in hits
                  /\ Rank(page.results[j]) = o + j

(* the example of the specification: three compounds, offset=2 and limit=2
   give the single row with id 3 and count 3 *)
C23_Witness ==
    /\ request = [endpoint |-> "compounds", params |-> [offset |-> 2, limit |-> 2]]
    /\ response.status = 200
    /\ response.body.count = 3
    /\ Len(response.body.results) = 1
    /\ response.body.results[1].id = 3
    /\ response.body.results[1].identifier = "3"

(* the link triples of the exported file of classification table t *)
LinkTriples(t) == {tr \in ttls[t] : tr[2] = get_rel_name(t)}

(* C29: for each of the seven classification kinds the link triples of the
   RDF export connect every compound that passes the compound filter and has
   a classification of that kind to the entity its own foreign key of that
   kind refers to, and there are no other link triples *)
C29_LinksFollowOwnForeignKey ==
    DOMAIN ttls # {} =>
        \A t \in ClassTables :
            LinkTriples(t) =
                {<<Node("c", c.identifier), get_rel_name(t), Node(t, c[IdCol(t)])>> :
                    c \in {x \in EligibleCompounds(db) : x[IdCol(t)] # NULL}}

(* C30: a request to /import_neo4j/ that finds no zipped TTL archive is
   answered with status 405, and the Neo4j importer is not invoked *)
C30_MissingArchiveIs405 ==
    [][request'.endpoint = "import_neo4j" /\ "ttls_zip" \notin files =>
          response'.status = 405 /\ neo4j' = neo4j]_vars


====
